---- MODULE Spec2Model ----
(***************************************************************************)
(* Model of parse_digit_format_simple (src/expected_cpp14.hpp:320-461):    *)
(* a character-exact scan of a NUL-terminated string that yields either a  *)
(* DigitResult record or a ParseError.                                     *)
(*                                                                         *)
(* Characters are their ASCII codes, so the comparisons of the source      *)
(* (str[index] < '0', str[index] - '0') are modelled literally.  A         *)
(* std::uint64_t is four 16-bit limbs, least significant first; every      *)
(* arithmetic operator wraps modulo 2^64 as the C++ type does.             *)
(***************************************************************************)
EXTENDS Integers, Sequences, FiniteSets, TLC

(* ---------------------------- characters ------------------------------ *)
CH_NUL == 0
CH_TAB == 9
CH_LF == 10
CH_CR == 13
CH_SPACE == 32
CH_HASH == 35
CH_0 == 48
CH_9 == 57
CH_B == 66
CH_LBRACKET == 91
CH_RBRACKET == 93
CH_d == 100
CH_g == 103
CH_i == 105

(* -------------------- std::uint64_t as 16-bit limbs ------------------- *)
LimbBase == 2 ^ 16

U64 == [1..4 -> 0..(LimbBase - 1)]

U64Zero == <<0, 0, 0, 0>>

\* conversion of a small non-negative int (a decimal digit) to uint64_t
U64Of(n) == <<n, 0, 0, 0>>

\* 18446744073709551615ULL
max_uint64 == <<LimbBase - 1, LimbBase - 1, LimbBase - 1, LimbBase - 1>>

\* 4294967295ULL
uint32_max == <<LimbBase - 1, LimbBase - 1, 0, 0>>

\* a > b on uint64_t
U64Gt(a, b) ==
    \/ a[4] > b[4]
    \/ a[4] = b[4] /\ a[3] > b[3]
    \/ a[4] = b[4] /\ a[3] = b[3] /\ a[2] > b[2]
    \/ a[4] = b[4] /\ a[3] = b[3] /\ a[2] = b[2] /\ a[1] > b[1]

\* a + b on uint64_t (wraps modulo 2^64)
U64Add(a, b) ==
    LET s1 == a[1] + b[1]
        s2 == a[2] + b[2] + (s1 \div LimbBase)
        s3 == a[3] + b[3] + (s2 \div LimbBase)
        s4 == a[4] + b[4] + (s3 \div LimbBase)
    IN  <<s1 % LimbBase, s2 % LimbBase, s3 % LimbBase, s4 % LimbBase>>

\* a - b on uint64_t (wraps modulo 2^64)
U64Sub(a, b) ==
    LET d1 == a[1] - b[1]
        d2 == a[2] - b[2] - (IF d1 < 0 THEN 1 ELSE 0)
        d3 == a[3] - b[3] - (IF d2 < 0 THEN 1 ELSE 0)
        d4 == a[4] - b[4] - (IF d3 < 0 THEN 1 ELSE 0)
    IN  <<d1 % LimbBase, d2 % LimbBase, d3 % LimbBase, d4 % LimbBase>>

\* a * m on uint64_t for a small multiplier m (wraps modulo 2^64)
U64MulSmall(a, m) ==
    LET p1 == a[1] * m
        p2 == a[2] * m + (p1 \div LimbBase)
        p3 == a[3] * m + (p2 \div LimbBase)
        p4 == a[4] * m + (p3 \div LimbBase)
    IN  <<p1 % LimbBase, p2 % LimbBase, p3 % LimbBase, p4 % LimbBase>>

\* a / m on uint64_t for a small divisor m > 0
U64DivSmall(a, m) ==
    LET r4 == a[4] % m
        n3 == r4 * LimbBase + a[3]
        n2 == (n3 % m) * LimbBase + a[2]
        n1 == (n2 % m) * LimbBase + a[1]
    IN  <<n1 \div m, n2 \div m, n3 \div m, a[4] \div m>>

\* a % m on uint64_t for a small divisor m > 0, as a small int
U64ModSmall(a, m) ==
    LET n3 == (a[4] % m) * LimbBase + a[3]
        n2 == (n3 % m) * LimbBase + a[2]
        n1 == (n2 % m) * LimbBase + a[1]
    IN  n1 % m

\* bit k (0 = least significant) of a uint64_t
U64Bit(a, k) == (a[(k \div 16) + 1] \div (2 ^ (k % 16))) % 2

\* a % b on uint64_t, b # 0: restoring division, most significant bit first.
\* The remainder r stays below b, so 2r+1 < 2b and one subtraction restores it;
\* a carry out of bit 63 means 2r+1 >= 2^64 > b.
\* One bit: r shifted left with bit k of a brought in, less b when that fits.
U64ModStep(a, b, k, r) ==
    LET carry == r[4] \div (LimbBase \div 2)
    IN  CHOOSE r2 \in {IF carry = 1 \/ ~U64Gt(b, shifted)
                       THEN U64Sub(shifted, b) ELSE shifted :
                          shifted \in {U64Add(U64MulSmall(r, 2), U64Of(U64Bit(a, k)))}} :
           TRUE

\* the bits of one limb, from bit k down to the lowest bit of that limb; each
\* remainder is bound as a value, so that it is computed once
RECURSIVE U64ModIter(_, _, _, _)
U64ModIter(a, b, k, r) ==
    IF k % 16 = 0 THEN U64ModStep(a, b, k, r)
    ELSE CHOOSE m \in {U64ModIter(a, b, k - 1, r2) : r2 \in {U64ModStep(a, b, k, r)}} :
            TRUE

\* the four limbs, the most significant first
U64Mod(a, b) ==
    CHOOSE m \in
       {U64ModIter(a, b, 15, r1) :
          r1 \in {U64ModIter(a, b, 31, r2) :
             r2 \in {U64ModIter(a, b, 47, r3) :
                r3 \in {U64ModIter(a, b, 63, U64Zero)}}}} : TRUE

\* faulty variant: the cast keeps 16 bits, static_cast<std::uint16_t>(v)
U32Cast_16bits(v) == <<v[1], 0, 0, 0>>

\* static_cast<std::uint32_t>(v)
U32Cast(v) == <<v[1], v[2], 0, 0>>

(* ------------------------------ ParseError ---------------------------- *)
ParseError ==
    {"InvalidCharacter", "BlankInterDigits", "Overflow", "Empty", "InvalidPrefix",
     "MissingDelimiter", "EmptyDigit", "MismatchedDelimiter", "InvalidDigit",
     "MissingB", "InvalidBase", "EmptyBase", "BlankInterDigitsOfBase",
     "BaseOutOfRange", "UnknownError"}

\* ParseError(): value-initialisation yields the enumerator of value 0
ParseError_default == "InvalidCharacter"

(* ------------------------------ DigitResult --------------------------- *)
\* DigitResult(digit, base): result = digit mod base, stored in 32 bits.
\* A base of 0 is a division by zero; the range check keeps it from here.
DigitResult(d, b) ==
    [digit  |-> d,
     base   |-> b,
     result |-> IF b = U64Zero THEN U64Zero ELSE U32Cast(U64Mod(d, b))]

\* DigitResult(): the value-initialised record
DigitResult_default == [digit |-> U64Zero, base |-> U64Zero, result |-> U64Zero]

(* ------------------- Expected<DigitResult, ParseError> ---------------- *)
\* Expected(U&& value)
Expected_value(v) ==
    [value_ |-> v, error_ |-> ParseError_default, has_value_ |-> TRUE]

\* make_unexpected(e) handed to Expected(Unexpected<E> unexpected)
Expected_unexpected(e) ==
    [value_ |-> DigitResult_default, error_ |-> e, has_value_ |-> FALSE]

\* the same for Expected<std::uint64_t, ParseError>: T() is 0
Expected_unexpected_u64(e) ==
    [value_ |-> U64Zero, error_ |-> e, has_value_ |-> FALSE]

(* ------------------------------- state -------------------------------- *)
VARIABLES
    str,                \* the argument: [null, chars], chars without the NUL
    pc,                 \* position in parse_digit_format_simple
    index,              \* int index
    opening_delimiter,  \* char opening_delimiter
    digit,              \* std::uint64_t digit
    found_digit,        \* bool found_digit
    base,               \* std::uint64_t base
    found_base_digit,   \* bool found_base_digit
    ret,                \* the returned Expected, once pc = "done"
    previous,           \* what the earlier calls of the test program returned
    result,             \* std::uint64_t result of parse_number_simple
    start_index,        \* int start_index, its argument
    end_index,          \* int& end_index, its out-parameter
    layout,             \* which of the two definitions of struct Expected is built
    objs,               \* the Expected objects of the test program, by name
    vobjs,              \* its Expected<void, E> objects, by name
    call                \* the last operation on one of them: arguments, outcome

vars == <<str, pc, index, opening_delimiter, digit, found_digit, base,
          found_base_digit, ret, previous, result, start_index, end_index,
          layout, objs, vobjs, call>>

\* the Expected objects that the test program declares, apart from the parsers
containers == <<layout, objs, vobjs, call>>

\* the state that a call of parse_digit_format_simple does not touch
outside_parse_digit_format ==
    <<previous, result, start_index, end_index, layout, objs, vobjs, call>>

\* str[i]: the characters, then the terminating NUL; nothing is mapped beyond it
CharAt(i) ==
    IF i < Len(str.chars) THEN str.chars[i + 1]
    ELSE IF i = Len(str.chars) THEN CH_NUL
    ELSE -1

(* ----------------------- conditions of the source --------------------- *)
\* faulty variant: only the null pointer counts as empty
IsEmptyInput_nullOnly == str.null

\* str == nullptr || str[0] == '\0'
IsEmptyInput == str.null \/ CharAt(0) = CH_NUL

\* faulty variant: the line feed is left out of the blanks
IsBlank_noLF(c) == c = CH_SPACE \/ c = CH_TAB \/ c = CH_CR

\* faulty variant: the tab is left out of the blanks
IsBlank_noTab(c) == c = CH_SPACE \/ c = CH_LF \/ c = CH_CR

\* faulty variant: the carriage return is left out of the blanks
IsBlank_noCR(c) == c = CH_SPACE \/ c = CH_TAB \/ c = CH_LF

\* str[index] == ' ' || str[index] == '\t' || str[index] == '\n' || str[index] == '\r'
IsBlank(c) == c = CH_SPACE \/ c = CH_TAB \/ c = CH_LF \/ c = CH_CR

\* faulty variant: the prefix is matched without regard to case
IsPrefixStart_anyCase(c) == c = CH_d \/ c = CH_d - 32

\* str[index] == 'd'
IsPrefixStart(c) == c = CH_d

\* faulty variant: any bracket or hash opens the digit field
NotOpeningDelimiter_anyBracket(c) == c # CH_HASH /\ c # CH_LBRACKET /\ c # CH_RBRACKET

\* opening_delimiter != '#' && opening_delimiter != '['
NotOpeningDelimiter(c) == c # CH_HASH /\ c # CH_LBRACKET

\* str[index] < '0' || str[index] > '9'
NotDigit(c) == c < CH_0 \/ c > CH_9

\* faulty variant: '9' ends the run of digits
LoopDigit_upTo8(c) == c # CH_NUL /\ c >= CH_0 /\ c < CH_9

\* faulty variant: the run goes on until the NUL, digit or not
LoopDigit_untilNul(c) == c # CH_NUL

\* str[index] != '\0' && str[index] >= '0' && str[index] <= '9'
LoopDigit(c) == c # CH_NUL /\ c >= CH_0 /\ c <= CH_9

\* faulty variant: the character code is taken as the digit's value
DigitValue_raw(c) == U64Of(c)

\* std::uint64_t d = str[index] - '0'
DigitValue(c) == U64Of(c - CH_0)

\* faulty variant: the check before the multiplication is left out
MulOverflows_never(value) == FALSE

\* value > max_uint64 / 10
MulOverflows(value) == U64Gt(value, U64DivSmall(max_uint64, 10))

\* faulty variant: the check before the addition is left out
AddOverflows_never(value, d) == FALSE

\* faulty variant: >= in place of >, which rejects a sum of exactly 2^64 - 1
AddOverflows_inclusive(value, d) == ~U64Gt(U64Sub(max_uint64, d), value)

\* value > max_uint64 - d   (value already multiplied by 10)
AddOverflows(value, d) == U64Gt(value, U64Sub(max_uint64, d))

\* faulty variant: '#' closes either opener
expected_closing_hashOnly(open) == CH_HASH

\* (opening_delimiter == '#') ? '#' : ']'
expected_closing(open) == IF open = CH_HASH THEN CH_HASH ELSE CH_RBRACKET

\* faulty variant: 'b' is taken for 'B'
NotB_anyCase(c) == c # CH_B /\ c # CH_B + 32

\* str[index] != 'B'
NotB(c) == c # CH_B

\* faulty variant: base > uint32_max, the "- 1" forgotten
BaseRangeFails_offByOne(b) == b = U64Zero \/ U64Gt(b, uint32_max)

\* base == 0 || (base - 1) > uint32_max
BaseRangeFails(b) == b = U64Zero \/ U64Gt(U64Sub(b, U64Of(1)), uint32_max)

\* faulty variant: whatever follows the base is ignored
NotAtEnd_ignored(c) == FALSE

\* str[index] != '\0'
NotAtEnd(c) == c # CH_NUL

(* ------------------------- struct Expected<T, E> ---------------------- *)
\* The sources define struct Expected twice: with the members T value_ and
\* E error_ side by side, and with the two in a union ValueStorage.
Layouts == {"members", "union"}

\* the objects of the container tests: e1, e2 of one type Expected<T, E>
Names == {"e1", "e2"}

\* values of T and of E; T() and E() are the first of each
TValues == {0, 5, 42}
T_default == 0
EValues == {"", "error"}
E_default == ""

\* a name whose object is not constructed (or destroyed)
NoObject ==
    [constructed |-> FALSE, value_ |-> T_default, error_ |-> E_default,
     has_value_ |-> FALSE, alive |-> {}]

\* one object of the void specialization, in the place of v_ok and v_err of the tests
VoidNames == {"v"}

\* a name of an Expected<void, E> whose object is not constructed
NoVoidObject == [constructed |-> FALSE, error_ |-> E_default, has_value_ |-> FALSE]

\* no operation on a container yet
NoCall ==
    [op |-> "none", a |-> "", b |-> "", a_before |-> NoObject,
     b_before |-> NoObject, arg_T |-> T_default, arg_E |-> E_default,
     fn |-> "", invoked |-> FALSE, thrown |-> FALSE, ret_T |-> T_default,
     ret_E |-> E_default, ret_bool |-> FALSE, ret_obj |-> NoObject,
     copies |-> 0]

\* no container object yet
NoContainers ==
    /\ layout = "members"
    /\ objs = [n \in Names |-> NoObject]
    /\ vobjs = [n \in VoidNames |-> NoVoidObject]
    /\ call = NoCall

\* The payloads alive once value_ and then error_ have been initialised or
\* assigned, in this order, as every constructor and assignment does:
\* both members; in the union the member written last, error_.
AliveAfterWrites(l) == IF l = "members" THEN {"value_", "error_"} ELSE {"error_"}

\* what a read of o.value_ yields: the value of a member that is alive, any
\* value of T when the union's active member is error_
ReadValue(o) == IF "value_" \in o.alive THEN {o.value_} ELSE TValues

\* what a read of o.error_ yields, likewise
ReadError(o) == IF "error_" \in o.alive THEN {o.error_} ELSE EValues

\* the object after value_(v), error_(e), has_value_(h)
Constructed(v, e, h) ==
    [constructed |-> TRUE, value_ |-> v, error_ |-> e, has_value_ |-> h,
     alive |-> AliveAfterWrites(layout)]

(* ------------------------------ the steps ----------------------------- *)
\* faulty variant: an error is raised (throw) in place of being returned
Return_raise(e) ==
    /\ ret' = IF e.has_value_ THEN e ELSE ret
    /\ pc' = IF e.has_value_ THEN "done" ELSE "raised"

\* return e;  (pc = "done" is the returned call)
Return(e) ==
    /\ ret' = e
    /\ pc' = "done"

\* faulty variant: an iteration of the blank loop skips two characters
SkipBlank_byTwo ==
    /\ IsBlank(CharAt(index))
    /\ index' = index + 2
    /\ UNCHANGED <<str, pc, opening_delimiter, digit, found_digit, base,
                   found_base_digit, ret>>
    /\ UNCHANGED outside_parse_digit_format

\* while (blank(str[index])) index++;   one iteration
SkipBlank ==
    /\ IsBlank(CharAt(index))
    /\ index' = index + 1
    /\ UNCHANGED <<str, pc, opening_delimiter, digit, found_digit, base,
                   found_base_digit, ret>>
    /\ UNCHANGED outside_parse_digit_format

\* null or empty input, else int index = 0
Entry ==
    /\ pc = "entry"
    /\ IF IsEmptyInput
       THEN Return(Expected_unexpected("Empty")) /\ UNCHANGED index
       ELSE pc' = "prefix" /\ index' = 0 /\ UNCHANGED ret
    /\ UNCHANGED <<str, opening_delimiter, digit, found_digit, base,
                   found_base_digit>>
    /\ UNCHANGED outside_parse_digit_format

\* faulty variant: "ig" is consumed on the 'i' alone, the 'g' is not compared
ParsePrefix_noG ==
    /\ pc = "prefix"
    /\ IF IsPrefixStart(CharAt(index))
       THEN /\ index' = IF CharAt(index + 1) = CH_i
                        THEN index + 3 ELSE index + 1
            /\ pc' = "open"
            /\ UNCHANGED ret
       ELSE Return(Expected_unexpected("InvalidPrefix")) /\ UNCHANGED index
    /\ UNCHANGED <<str, opening_delimiter, digit, found_digit, base,
                   found_base_digit>>
    /\ UNCHANGED outside_parse_digit_format

\* 1. prefix: "d" | "dig"
ParsePrefix ==
    /\ pc = "prefix"
    /\ IF IsPrefixStart(CharAt(index))
       THEN /\ index' = IF CharAt(index + 1) = CH_i /\ CharAt(index + 2) = CH_g
                        THEN index + 3 ELSE index + 1
            /\ pc' = "open"
            /\ UNCHANGED ret
       ELSE Return(Expected_unexpected("InvalidPrefix")) /\ UNCHANGED index
    /\ UNCHANGED <<str, opening_delimiter, digit, found_digit, base,
                   found_base_digit>>
    /\ UNCHANGED outside_parse_digit_format

\* 2. blanks before the opening delimiter
SkipBlanks1 == pc = "open" /\ SkipBlank

\* 3. opening delimiter: "#" | "["
ParseOpen ==
    /\ pc = "open"
    /\ ~IsBlank(CharAt(index))
    /\ opening_delimiter' = CharAt(index)
    /\ IF NotOpeningDelimiter(CharAt(index))
       THEN Return(Expected_unexpected("MissingDelimiter")) /\ UNCHANGED index
       ELSE index' = index + 1 /\ pc' = "digit_first" /\ UNCHANGED ret
    /\ UNCHANGED <<str, digit, found_digit, base, found_base_digit>>
    /\ UNCHANGED outside_parse_digit_format

\* 4. blanks before the digit field
SkipBlanks2 == pc = "digit_first" /\ SkipBlank

\* faulty variant: a digit field without a digit is reported as EmptyDigit
DigitFirst_emptyDigit ==
    /\ pc = "digit_first"
    /\ ~IsBlank(CharAt(index))
    /\ IF NotDigit(CharAt(index))
       THEN Return(Expected_unexpected("EmptyDigit"))
            /\ UNCHANGED <<digit, found_digit>>
       ELSE /\ digit' = U64Zero
            /\ found_digit' = FALSE
            /\ pc' = "digit_loop"
            /\ UNCHANGED ret
    /\ UNCHANGED <<str, index, opening_delimiter, base, found_base_digit>>
    /\ UNCHANGED outside_parse_digit_format

\* 5. the digit field must start with a digit
DigitFirst ==
    /\ pc = "digit_first"
    /\ ~IsBlank(CharAt(index))
    /\ IF NotDigit(CharAt(index))
       THEN Return(Expected_unexpected("InvalidDigit"))
            /\ UNCHANGED <<digit, found_digit>>
       ELSE /\ digit' = U64Zero
            /\ found_digit' = FALSE
            /\ pc' = "digit_loop"
            /\ UNCHANGED ret
    /\ UNCHANGED <<str, index, opening_delimiter, base, found_base_digit>>
    /\ UNCHANGED outside_parse_digit_format

\* one iteration of the digit loop: digit = digit * 10 + d, overflow checked first
DigitLoop ==
    /\ pc = "digit_loop"
    /\ LoopDigit(CharAt(index))
    /\ found_digit' = TRUE
    /\ LET d == DigitValue(CharAt(index))
       IN  IF MulOverflows(digit)
           THEN Return(Expected_unexpected("Overflow")) /\ UNCHANGED <<digit, index>>
           ELSE IF AddOverflows(U64MulSmall(digit, 10), d)
           THEN /\ Return(Expected_unexpected("Overflow"))
                /\ digit' = U64MulSmall(digit, 10)
                /\ UNCHANGED index
           ELSE /\ digit' = U64Add(U64MulSmall(digit, 10), d)
                /\ index' = index + 1
                /\ UNCHANGED <<pc, ret>>
    /\ UNCHANGED <<str, opening_delimiter, base, found_base_digit>>
    /\ UNCHANGED outside_parse_digit_format

\* the digit loop ends: if (!found_digit) return InvalidDigit
DigitEnd ==
    /\ pc = "digit_loop"
    /\ ~LoopDigit(CharAt(index))
    /\ IF ~found_digit
       THEN Return(Expected_unexpected("InvalidDigit"))
       ELSE pc' = "close" /\ UNCHANGED ret
    /\ UNCHANGED <<str, index, opening_delimiter, digit, found_digit, base,
                   found_base_digit>>
    /\ UNCHANGED outside_parse_digit_format

\* 6. blanks before the closing delimiter
SkipBlanks3 == pc = "close" /\ SkipBlank

\* faulty variant: a digit found where the closing delimiter should be, which
\* only blanks can have separated from the digit field, is reported as
\* parse_number reports it
ParseClose_blankInterDigits ==
    /\ pc = "close"
    /\ ~IsBlank(CharAt(index))
    /\ IF CharAt(index) \in CH_0..CH_9
       THEN Return(Expected_unexpected("BlankInterDigits")) /\ UNCHANGED index
       ELSE IF CharAt(index) # expected_closing(opening_delimiter)
       THEN Return(Expected_unexpected("MismatchedDelimiter")) /\ UNCHANGED index
       ELSE index' = index + 1 /\ pc' = "B" /\ UNCHANGED ret
    /\ UNCHANGED <<str, opening_delimiter, digit, found_digit, base,
                   found_base_digit>>
    /\ UNCHANGED outside_parse_digit_format

\* 7. closing delimiter, matching the opening one
ParseClose ==
    /\ pc = "close"
    /\ ~IsBlank(CharAt(index))
    /\ IF CharAt(index) # expected_closing(opening_delimiter)
       THEN Return(Expected_unexpected("MismatchedDelimiter")) /\ UNCHANGED index
       ELSE index' = index + 1 /\ pc' = "B" /\ UNCHANGED ret
    /\ UNCHANGED <<str, opening_delimiter, digit, found_digit, base,
                   found_base_digit>>
    /\ UNCHANGED outside_parse_digit_format

\* 8. blanks before "B"
SkipBlanks4 == pc = "B" /\ SkipBlank

\* 9. "B"
ParseB ==
    /\ pc = "B"
    /\ ~IsBlank(CharAt(index))
    /\ IF NotB(CharAt(index))
       THEN Return(Expected_unexpected("MissingB")) /\ UNCHANGED index
       ELSE index' = index + 1 /\ pc' = "base_first" /\ UNCHANGED ret
    /\ UNCHANGED <<str, opening_delimiter, digit, found_digit, base,
                   found_base_digit>>
    /\ UNCHANGED outside_parse_digit_format

\* 10. blanks before the base field
SkipBlanks5 == pc = "base_first" /\ SkipBlank

\* 11. the base field must start with a digit
BaseFirst ==
    /\ pc = "base_first"
    /\ ~IsBlank(CharAt(index))
    /\ IF NotDigit(CharAt(index))
       THEN Return(Expected_unexpected("InvalidBase"))
            /\ UNCHANGED <<base, found_base_digit>>
       ELSE /\ base' = U64Zero
            /\ found_base_digit' = FALSE
            /\ pc' = "base_loop"
            /\ UNCHANGED ret
    /\ UNCHANGED <<str, index, opening_delimiter, digit, found_digit>>
    /\ UNCHANGED outside_parse_digit_format

\* one iteration of the base loop: base = base * 10 + b, overflow checked first
BaseLoop ==
    /\ pc = "base_loop"
    /\ LoopDigit(CharAt(index))
    /\ found_base_digit' = TRUE
    /\ LET b == DigitValue(CharAt(index))
       IN  IF MulOverflows(base)
           THEN Return(Expected_unexpected("Overflow")) /\ UNCHANGED <<base, index>>
           ELSE IF AddOverflows(U64MulSmall(base, 10), b)
           THEN /\ Return(Expected_unexpected("Overflow"))
                /\ base' = U64MulSmall(base, 10)
                /\ UNCHANGED index
           ELSE /\ base' = U64Add(U64MulSmall(base, 10), b)
                /\ index' = index + 1
                /\ UNCHANGED <<pc, ret>>
    /\ UNCHANGED <<str, opening_delimiter, digit, found_digit>>
    /\ UNCHANGED outside_parse_digit_format

\* the base loop ends: if (!found_base_digit) return InvalidBase
BaseEnd ==
    /\ pc = "base_loop"
    /\ ~LoopDigit(CharAt(index))
    /\ IF ~found_base_digit
       THEN Return(Expected_unexpected("InvalidBase"))
       ELSE pc' = "range" /\ UNCHANGED ret
    /\ UNCHANGED <<str, index, opening_delimiter, digit, found_digit, base,
                   found_base_digit>>
    /\ UNCHANGED outside_parse_digit_format

\* skip_whitespace(str, i)
RECURSIVE skip_whitespace(_)
skip_whitespace(i) == IF IsBlank(CharAt(i)) THEN skip_whitespace(i + 1) ELSE i

\* faulty variant: the trailing content is looked at before the range of the base
RangeCheck_late ==
    /\ pc = "range"
    /\ IF NotAtEnd(CharAt(skip_whitespace(index)))
       THEN Return(Expected_unexpected("InvalidCharacter"))
       ELSE IF BaseRangeFails(base)
       THEN Return(Expected_unexpected("BaseOutOfRange"))
       ELSE pc' = "trailing" /\ UNCHANGED ret
    /\ UNCHANGED <<str, index, opening_delimiter, digit, found_digit, base,
                   found_base_digit>>
    /\ UNCHANGED outside_parse_digit_format

\* 12. base - 1 <= uint32_max
RangeCheck ==
    /\ pc = "range"
    /\ IF BaseRangeFails(base)
       THEN Return(Expected_unexpected("BaseOutOfRange"))
       ELSE pc' = "trailing" /\ UNCHANGED ret
    /\ UNCHANGED <<str, index, opening_delimiter, digit, found_digit, base,
                   found_base_digit>>
    /\ UNCHANGED outside_parse_digit_format

\* 13. trailing blanks
SkipBlanks6 == pc = "trailing" /\ SkipBlank

\* 13. the end of the input must follow; then the record is returned
Finish ==
    /\ pc = "trailing"
    /\ ~IsBlank(CharAt(index))
    /\ IF NotAtEnd(CharAt(index))
       THEN Return(Expected_unexpected("InvalidCharacter"))
       ELSE Return(Expected_value(DigitResult(digit, base)))
    /\ UNCHANGED <<str, index, opening_delimiter, digit, found_digit, base,
                   found_base_digit>>
    /\ UNCHANGED outside_parse_digit_format

\* faulty variant: & in place of &&, str[index + 1] is read whatever str[index] is
ReadsNow_noShortCircuit ==
    IF pc = "entry" THEN (IF str.null THEN {} ELSE {0})
    ELSE IF pc = "prefix"
    THEN {index} \cup (IF CharAt(index) = CH_d THEN {index + 1, index + 2} ELSE {})
    ELSE IF pc \in {"range", "done"} THEN {}
    ELSE {index}

\* the positions of str that the step at hand reads. In the prefix step index
\* still stands on the 'd': the source's str[index] and str[index + 1] after
\* its index++ are str[index + 1] and str[index + 2] here, the second read
\* only when the first is 'i' (&&).
ReadsNow ==
    IF pc = "entry" THEN (IF str.null THEN {} ELSE {0})
    ELSE IF pc = "prefix"
    THEN {index} \cup
         (IF CharAt(index) = CH_d
          THEN {index + 1} \cup (IF CharAt(index + 1) = CH_i THEN {index + 2} ELSE {})
          ELSE {})
    ELSE IF pc \in {"range", "done"} THEN {}
    ELSE {index}

(* ------------------------------ the inputs ---------------------------- *)
\* bounds of the input families
MaxLen == 3
MaxBlanks == 1

\* the characters of a decimal numeral given by its digits
Dec(ds) == [k \in 1..Len(ds) |-> CH_0 + ds[k]]

\* all strings over `alphabet` of length at most n
StringsUpTo(alphabet, n) == UNION {[1..k -> alphabet] : k \in 0..n}

BlankChars == {CH_SPACE, CH_TAB, CH_LF, CH_CR}

\* 'x', 'D', 'b', 'C': characters that are no part of the grammar
CH_x == 120
Foreign == {CH_x, 68, 98, 67}

\* 2^64 - 1, 2^64, 10 * (2^64 - 1), 2^32 - 1, 2^32, 2^32 + 1 as numerals
NumMaxU64 == Dec(<<1,8,4,4,6,7,4,4,0,7,3,7,0,9,5,5,1,6,1,5>>)
NumMaxU64Plus1 == Dec(<<1,8,4,4,6,7,4,4,0,7,3,7,0,9,5,5,1,6,1,6>>)
NumMaxU64Times10 == Dec(<<1,8,4,4,6,7,4,4,0,7,3,7,0,9,5,5,1,6,1,5,0>>)
NumMaxU32 == Dec(<<4,2,9,4,9,6,7,2,9,5>>)
NumMaxU32Plus1 == Dec(<<4,2,9,4,9,6,7,2,9,6>>)
NumMaxU32Plus2 == Dec(<<4,2,9,4,9,6,7,2,9,7>>)

\* prefix ws[1] open ws[2] digits ws[3] close ws[4] B ws[5] base ws[6] trail
Compose(p, o, d, c, b, n, t, ws) ==
    p \o ws[1] \o o \o ws[2] \o d \o ws[3] \o c \o ws[4] \o b \o ws[5]
      \o n \o ws[6] \o t

\* Family A: every slot of the grammar right, wrong or missing, in every
\* combination, without blanks and with one space at every blank point.
APrefixes == {<<CH_d>>, <<CH_d, CH_i, CH_g>>, <<CH_x>>, <<68>>, <<CH_d, CH_i>>}
AOpens == {<<CH_HASH>>, <<CH_LBRACKET>>, <<>>}
ADigits == {<<>>, Dec(<<5>>), NumMaxU64, NumMaxU64Plus1, NumMaxU64Times10}
ACloses == {<<CH_HASH>>, <<CH_RBRACKET>>, <<>>}
ABs == {<<CH_B>>, <<98>>, <<>>}
ABases == {<<>>, Dec(<<0>>), Dec(<<1>>), Dec(<<2>>), Dec(<<3>>), NumMaxU32,
           NumMaxU32Plus1, NumMaxU32Plus2, NumMaxU64Plus1, NumMaxU64Times10}
ATrails == {<<>>, <<CH_x>>}
ABlanks == {[k \in 1..6 |-> <<>>], [k \in 1..6 |-> <<CH_SPACE>>]}

FamilyA ==
    {Compose(p, o, d, c, b, n, t, ws) :
        p \in APrefixes, o \in AOpens, d \in ADigits, c \in ACloses,
        b \in ABs, n \in ABases, t \in ATrails, ws \in ABlanks}

\* Family B: well-formed inputs with runs of blanks of length <= MaxBlanks,
\* at one blank point or the same run at all six.
BlankRuns == StringsUpTo(BlankChars, MaxBlanks)
BBlanks ==
    {[k \in 1..6 |-> IF k = at \/ at = 0 THEN r ELSE <<>>] :
        at \in 0..6, r \in BlankRuns}
BDelims == {<<CH_HASH, CH_HASH>>, <<CH_LBRACKET, CH_RBRACKET>>}

FamilyB ==
    {Compose(p, <<dl[1]>>, d, <<dl[2]>>, <<CH_B>>, n, <<>>, ws) :
        p \in {<<CH_d>>, <<CH_d, CH_i, CH_g>>}, dl \in BDelims,
        d \in {Dec(<<7>>), Dec(<<1,0,0>>)}, n \in {Dec(<<3>>), Dec(<<1,0>>)},
        ws \in BBlanks}

\* Family C: every string of length <= MaxLen over the characters of the grammar
ShortAlphabet ==
    {CH_d, CH_i, CH_g, CH_HASH, CH_LBRACKET, CH_RBRACKET, CH_B, CH_SPACE,
     CH_0, CH_0 + 5, CH_x}

FamilyC == StringsUpTo(ShortAlphabet, MaxLen)

\* Family D: a run of blanks of length 1..MaxBlanks inside the digit field,
\* and inside the base field, of an otherwise well-formed input
DHeads == {Dec(<<0>>), Dec(<<1>>), NumMaxU32Plus2, NumMaxU64Plus1}
DTails == {Dec(<<0>>), Dec(<<2>>)}

FamilyD ==
    {<<CH_d, dl[1]>> \o h \o r \o t \o <<dl[2], CH_B, CH_0 + 3>> :
        dl \in BDelims, h \in DHeads, r \in BlankRuns \ {<<>>}, t \in DTails}
    \cup
    {<<CH_d, CH_HASH, CH_0 + 5, CH_HASH, CH_B>> \o h \o r \o t :
        h \in DHeads, r \in BlankRuns \ {<<>>}, t \in DTails}

NullPtr == [null |-> TRUE, chars |-> <<>>]

Inputs ==
    {NullPtr} \cup
    {[null |-> FALSE, chars |-> s] :
        s \in FamilyA \cup FamilyB \cup FamilyC \cup FamilyD}

(* --------------------------- the specification ------------------------ *)
Init ==
    /\ str \in Inputs
    /\ pc = "entry"
    /\ index = 0
    /\ opening_delimiter = CH_NUL
    /\ digit = U64Zero
    /\ found_digit = FALSE
    /\ base = U64Zero
    /\ found_base_digit = FALSE
    \* nothing is returned yet: ret is read only once pc = "done"
    /\ ret = Expected_unexpected(ParseError_default)
    /\ previous = <<>>
    /\ result = U64Zero
    /\ start_index = 0
    /\ end_index = 0
    /\ NoContainers

Next ==
    \/ Entry
    \/ ParsePrefix
    \/ SkipBlanks1
    \/ ParseOpen
    \/ SkipBlanks2
    \/ DigitFirst
    \/ DigitLoop
    \/ DigitEnd
    \/ SkipBlanks3
    \/ ParseClose
    \/ SkipBlanks4
    \/ ParseB
    \/ SkipBlanks5
    \/ BaseFirst
    \/ BaseLoop
    \/ BaseEnd
    \/ RangeCheck
    \/ SkipBlanks6
    \/ Finish

Spec == Init /\ [][Next]_vars

(* ------------- two calls: an input, then the input with blanks -------- *)
\* The test program calls the parser on one literal after the other; here
\* the second literal is the first one with blanks at the six blank points.
NoBlanks == [k \in 1..6 |-> <<>>]

\* the parts of the blank-free literals: prefix, delimiters, digit, base
SeedParts ==
    {<<p, dl, n[1], n[2]>> :
        p \in {<<CH_d>>, <<CH_d, CH_i, CH_g>>}, dl \in BDelims,
        n \in {<<Dec(<<5>>), Dec(<<3>>)>>, <<Dec(<<1,0,0>>), Dec(<<7>>)>>,
               <<NumMaxU64, NumMaxU32Plus1>>}}

SeedString(q, ws) ==
    Compose(q[1], <<q[2][1]>>, q[3], <<q[2][2]>>, <<CH_B>>, q[4], <<>>, ws)

Seeds == {[null |-> FALSE, chars |-> SeedString(q, NoBlanks)] : q \in SeedParts}

\* at each of the six points either nothing or one run of blanks
InsertedBlanks == UNION {[1..6 -> {<<>>, r}] : r \in BlankRuns \ {<<>>}}

\* the next literal: the accepted one again, blanks inserted; a fresh call
CallAgain ==
    /\ pc = "done"
    /\ previous = <<>>
    /\ ret.has_value_
    /\ \E q \in SeedParts, ws \in InsertedBlanks :
          /\ str.chars = SeedString(q, NoBlanks)
          /\ str' = [null |-> FALSE, chars |-> SeedString(q, ws)]
    /\ previous' = <<ret>>
    /\ pc' = "entry"
    /\ index' = 0
    /\ opening_delimiter' = CH_NUL
    /\ digit' = U64Zero
    /\ found_digit' = FALSE
    /\ base' = U64Zero
    /\ found_base_digit' = FALSE
    /\ ret' = Expected_unexpected(ParseError_default)
    /\ UNCHANGED <<result, start_index, end_index>>
    /\ UNCHANGED containers

InitBlanks ==
    /\ str \in Seeds
    /\ pc = "entry"
    /\ index = 0
    /\ opening_delimiter = CH_NUL
    /\ digit = U64Zero
    /\ found_digit = FALSE
    /\ base = U64Zero
    /\ found_base_digit = FALSE
    /\ ret = Expected_unexpected(ParseError_default)
    /\ previous = <<>>
    /\ result = U64Zero
    /\ start_index = 0
    /\ end_index = 0
    /\ NoContainers

NextBlanks ==
    \/ Entry
    \/ ParsePrefix
    \/ SkipBlanks1
    \/ ParseOpen
    \/ SkipBlanks2
    \/ DigitFirst
    \/ DigitLoop
    \/ DigitEnd
    \/ SkipBlanks3
    \/ ParseClose
    \/ SkipBlanks4
    \/ ParseB
    \/ SkipBlanks5
    \/ BaseFirst
    \/ BaseLoop
    \/ BaseEnd
    \/ RangeCheck
    \/ SkipBlanks6
    \/ Finish
    \/ CallAgain

SpecBlanks == InitBlanks /\ [][NextBlanks]_vars

(* ------------------------- parse: the number parser ------------------- *)
\* parse(str) is called by struct Xperiment and is not defined in these
\* sources; its steps around parse_number_simple follow the specification:
\* null or empty input, leading blanks, the digits, one run of trailing
\* blanks, then the end of the input.
\* the state that a call of parse does not touch
outside_parse ==
    <<opening_delimiter, digit, base, found_base_digit, previous, layout, objs,
      vobjs, call>>

\* return e from parse  (pc = "p_done" is the returned call)
ReturnNumber(e) ==
    /\ ret' = e
    /\ pc' = "p_done"

\* null or empty input
ParseEntry ==
    /\ pc = "p_entry"
    /\ IF IsEmptyInput
       THEN ReturnNumber(Expected_unexpected_u64("Empty")) /\ UNCHANGED index
       ELSE pc' = "p_lead" /\ index' = 0 /\ UNCHANGED ret
    /\ UNCHANGED <<str, found_digit, result, start_index, end_index>>
    /\ UNCHANGED outside_parse

\* leading blanks: skip_whitespace(str, 0), one iteration
SkipLeading == pc = "p_lead" /\ SkipBlank

\* parse_number_simple(str, index, end_index) is called
CallNumber ==
    /\ pc = "p_lead"
    /\ ~IsBlank(CharAt(index))
    /\ start_index' = index
    /\ pc' = "n_entry"
    /\ UNCHANGED <<str, index, found_digit, result, end_index, ret>>
    /\ UNCHANGED outside_parse

\* parse_number_simple: the first character must be a digit; then the locals
NumberFirst ==
    /\ pc = "n_entry"
    /\ IF NotDigit(CharAt(start_index))
       THEN /\ end_index' = start_index
            /\ ret' = Expected_unexpected_u64("InvalidCharacter")
            /\ pc' = "p_after"
            /\ UNCHANGED <<result, index, found_digit>>
       ELSE /\ result' = U64Zero
            /\ index' = start_index
            /\ found_digit' = FALSE
            /\ pc' = "n_loop"
            /\ UNCHANGED <<end_index, ret>>
    /\ UNCHANGED <<str, start_index>>
    /\ UNCHANGED outside_parse

\* parse_number_simple: one iteration of the loop, overflow checked first
NumberLoop ==
    /\ pc = "n_loop"
    /\ LoopDigit(CharAt(index))
    /\ found_digit' = TRUE
    /\ LET d == DigitValue(CharAt(index))
       IN  IF MulOverflows(result)
           THEN /\ end_index' = index
                /\ ret' = Expected_unexpected_u64("Overflow")
                /\ pc' = "p_after"
                /\ UNCHANGED <<result, index>>
           ELSE IF AddOverflows(U64MulSmall(result, 10), d)
           THEN /\ end_index' = index
                /\ ret' = Expected_unexpected_u64("Overflow")
                /\ pc' = "p_after"
                /\ result' = U64MulSmall(result, 10)
                /\ UNCHANGED index
           ELSE /\ result' = U64Add(U64MulSmall(result, 10), d)
                /\ index' = index + 1
                /\ UNCHANGED <<pc, ret, end_index>>
    /\ UNCHANGED <<str, start_index>>
    /\ UNCHANGED outside_parse

\* parse_number_simple: the loop ends; end_index = index; Empty or the value
NumberEnd ==
    /\ pc = "n_loop"
    /\ ~LoopDigit(CharAt(index))
    /\ end_index' = index
    /\ ret' = IF ~found_digit
              THEN Expected_unexpected_u64("Empty")
              ELSE Expected_value(result)
    /\ pc' = "p_after"
    /\ UNCHANGED <<str, index, found_digit, result, start_index>>
    /\ UNCHANGED outside_parse

\* back in parse: an error of parse_number_simple is returned as it is;
\* after a value, the scan goes on at end_index
ParseAfter ==
    /\ pc = "p_after"
    /\ IF ~ret.has_value_
       THEN pc' = "p_done" /\ UNCHANGED index
       ELSE pc' = "p_trail" /\ index' = end_index
    /\ UNCHANGED <<str, found_digit, result, start_index, end_index, ret>>
    /\ UNCHANGED outside_parse

\* one run of trailing blanks: skip_whitespace(str, end_index), one iteration
SkipTrailing == pc = "p_trail" /\ SkipBlank

\* after the trailing blanks: another digit, any other character, or the end
ParseFinish ==
    /\ pc = "p_trail"
    /\ ~IsBlank(CharAt(index))
    /\ IF ~NotDigit(CharAt(index))
       THEN ReturnNumber(Expected_unexpected_u64("BlankInterDigits"))
       ELSE IF NotAtEnd(CharAt(index))
       THEN ReturnNumber(Expected_unexpected_u64("InvalidCharacter"))
       ELSE pc' = "p_done" /\ UNCHANGED ret
    /\ UNCHANGED <<str, index, found_digit, result, start_index, end_index>>
    /\ UNCHANGED outside_parse

\* the literals handed to parse: blanks, a numeral, blanks, what follows
CH_a == 97
NLeads == BlankRuns
NDigits ==
    {<<>>, Dec(<<0>>), Dec(<<1,2>>), Dec(<<0,0,7>>), NumMaxU64, NumMaxU64Plus1,
     NumMaxU64Times10}
NTails == {<<>>, Dec(<<3,4>>), <<CH_a>>, <<CH_a, CH_0 + 3, CH_0 + 4>>}
NumberFamily ==
    {l \o d \o m \o t : l \in NLeads, d \in NDigits, m \in BlankRuns, t \in NTails}

\* every string of length <= MaxLen over blanks, digits and a letter
NumberShort == StringsUpTo({CH_SPACE, CH_TAB, CH_0, CH_9, CH_a}, MaxLen)

NumberInputs ==
    {NullPtr} \cup
    {[null |-> FALSE, chars |-> s] : s \in NumberFamily \cup NumberShort}

InitNumber ==
    /\ str \in NumberInputs
    /\ pc = "p_entry"
    /\ index = 0
    /\ opening_delimiter = CH_NUL
    /\ digit = U64Zero
    /\ found_digit = FALSE
    /\ base = U64Zero
    /\ found_base_digit = FALSE
    /\ ret = Expected_unexpected_u64(ParseError_default)
    /\ previous = <<>>
    /\ result = U64Zero
    /\ start_index = 0
    /\ end_index = 0
    /\ NoContainers

NextNumber ==
    \/ ParseEntry
    \/ SkipLeading
    \/ CallNumber
    \/ NumberFirst
    \/ NumberLoop
    \/ NumberEnd
    \/ ParseAfter
    \/ SkipTrailing
    \/ ParseFinish

SpecNumber == InitNumber /\ [][NextNumber]_vars

(* --------------- both parsers, on numerals around 2^64 ---------------- *)
\* digit-format literals whose two fields are the numerals of interest
AccumulateFormats ==
    {Compose(<<CH_d>>, <<CH_HASH>>, d, <<CH_HASH>>, <<CH_B>>, n, <<>>, ws) :
        d \in ADigits \cup {Dec(<<1,0,0>>)},
        n \in ABases \cup {NumMaxU64},
        ws \in ABlanks}

\* either parser is called
InitAccumulate ==
    /\ \/ /\ pc = "entry"
          /\ str \in {[null |-> FALSE, chars |-> s] : s \in AccumulateFormats}
          /\ ret = Expected_unexpected(ParseError_default)
       \/ /\ pc = "p_entry"
          /\ str \in NumberInputs
          /\ ret = Expected_unexpected_u64(ParseError_default)
    /\ index = 0
    /\ opening_delimiter = CH_NUL
    /\ digit = U64Zero
    /\ found_digit = FALSE
    /\ base = U64Zero
    /\ found_base_digit = FALSE
    /\ previous = <<>>
    /\ result = U64Zero
    /\ start_index = 0
    /\ end_index = 0
    /\ NoContainers

NextAccumulate ==
    \/ Entry
    \/ ParsePrefix
    \/ SkipBlanks1
    \/ ParseOpen
    \/ SkipBlanks2
    \/ DigitFirst
    \/ DigitLoop
    \/ DigitEnd
    \/ SkipBlanks3
    \/ ParseClose
    \/ SkipBlanks4
    \/ ParseB
    \/ SkipBlanks5
    \/ BaseFirst
    \/ BaseLoop
    \/ BaseEnd
    \/ RangeCheck
    \/ SkipBlanks6
    \/ Finish
    \/ ParseEntry
    \/ SkipLeading
    \/ CallNumber
    \/ NumberFirst
    \/ NumberLoop
    \/ NumberEnd
    \/ ParseAfter
    \/ SkipTrailing
    \/ ParseFinish

SpecAccumulate == InitAccumulate /\ [][NextAccumulate]_vars

(* ------------------------ the call runs to its end -------------------- *)
\* the literals of the termination check: the empty ones, runs of blanks at
\* every blank point, the numerals around 2^64, every slot right, wrong or
\* missing
RunBlanks ==
    {Compose(<<CH_d>>, <<CH_HASH>>, Dec(<<7>>), <<CH_HASH>>, <<CH_B>>, Dec(<<3>>),
             <<>>, ws) : ws \in BBlanks}

RunFormats ==
    {Compose(p, o, Dec(<<5>>), c, b, n, t, ws) :
        p \in APrefixes, o \in AOpens, c \in ACloses, b \in ABs,
        n \in {<<>>, Dec(<<3>>)}, t \in ATrails, ws \in ABlanks}

RunInputs ==
    {NullPtr} \cup
    {[null |-> FALSE, chars |-> s] :
        s \in {<<>>} \cup RunBlanks \cup AccumulateFormats \cup RunFormats}

InitRuns ==
    /\ str \in RunInputs
    /\ pc = "entry"
    /\ index = 0
    /\ opening_delimiter = CH_NUL
    /\ digit = U64Zero
    /\ found_digit = FALSE
    /\ base = U64Zero
    /\ found_base_digit = FALSE
    /\ ret = Expected_unexpected(ParseError_default)
    /\ previous = <<>>
    /\ result = U64Zero
    /\ start_index = 0
    /\ end_index = 0
    /\ NoContainers

\* the call runs: a sequential program takes its next step as long as it has one
SpecRuns == InitRuns /\ [][Next]_vars /\ WF_vars(Next)

(* ------------------- either parser, on every input -------------------- *)
\* parse_digit_format_simple on its inputs or parse on its own
InitParsers ==
    /\ \/ /\ pc = "entry"
          /\ str \in Inputs
          /\ ret = Expected_unexpected(ParseError_default)
       \/ /\ pc = "p_entry"
          /\ str \in NumberInputs
          /\ ret = Expected_unexpected_u64(ParseError_default)
    /\ index = 0
    /\ opening_delimiter = CH_NUL
    /\ digit = U64Zero
    /\ found_digit = FALSE
    /\ base = U64Zero
    /\ found_base_digit = FALSE
    /\ previous = <<>>
    /\ result = U64Zero
    /\ start_index = 0
    /\ end_index = 0
    /\ NoContainers

SpecParsers == InitParsers /\ [][NextAccumulate]_vars

(* ------------------- the operations of struct Expected ---------------- *)
\* the state of the parsers, which the container tests leave alone
parsers ==
    <<str, pc, index, opening_delimiter, digit, found_digit, base,
      found_base_digit, ret, previous, result, start_index, end_index>>

\* Expected(U&& value): value_(value), error_(), has_value_(true)
ConstructValue ==
    /\ \E n \in Names, v \in TValues :
          /\ ~objs[n].constructed
          /\ objs' = [objs EXCEPT ![n] = Constructed(v, E_default, TRUE)]
          /\ call' = [NoCall EXCEPT !.op = "construct_value", !.a = n, !.arg_T = v]
    /\ UNCHANGED <<layout, vobjs, parsers>>

\* Expected(Unexpected<E> unexpected): value_(), error_(unexpected.error),
\* has_value_(false)
ConstructError ==
    /\ \E n \in Names, e \in EValues :
          /\ ~objs[n].constructed
          /\ objs' = [objs EXCEPT ![n] = Constructed(T_default, e, FALSE)]
          /\ call' = [NoCall EXCEPT !.op = "construct_error", !.a = n, !.arg_E = e]
    /\ UNCHANGED <<layout, vobjs, parsers>>

\* Expected(const Expected& other): the three members copied from other
CopyConstruct ==
    /\ \E n \in Names, m \in Names :
          /\ ~objs[n].constructed
          /\ objs[m].constructed
          /\ \E v \in ReadValue(objs[m]) :
                objs' = [objs EXCEPT
                            ![n] = Constructed(v, objs[m].error_, objs[m].has_value_)]
          /\ call' = [NoCall EXCEPT !.op = "copy_construct", !.a = n, !.b = m,
                                    !.b_before = objs[m], !.copies = 1]
    /\ UNCHANGED <<layout, vobjs, parsers>>

\* Expected(Expected&& other): value_ moved from other.value_, the rest copied;
\* a moved-from T keeps some value of T
MoveConstruct ==
    /\ \E n \in Names, m \in Names :
          /\ ~objs[n].constructed
          /\ objs[m].constructed
          /\ \E v \in ReadValue(objs[m]), left \in TValues :
                objs' = [objs EXCEPT
                            ![n] = Constructed(v, objs[m].error_, objs[m].has_value_),
                            ![m].value_ = left]
          /\ call' = [NoCall EXCEPT !.op = "move_construct", !.a = n, !.b = m,
                                    !.b_before = objs[m]]
    /\ UNCHANGED <<layout, vobjs, parsers>>

\* operator=(const Expected& other): nothing when this == &other, else the
\* three members assigned from other
CopyAssign ==
    /\ \E n \in Names, m \in Names :
          /\ objs[n].constructed
          /\ objs[m].constructed
          /\ IF n = m
             THEN UNCHANGED objs
             ELSE \E v \in ReadValue(objs[m]) :
                     objs' = [objs EXCEPT
                                 ![n] = Constructed(v, objs[m].error_, objs[m].has_value_)]
          /\ call' = [NoCall EXCEPT !.op = "copy_assign", !.a = n, !.b = m,
                                    !.a_before = objs[n], !.b_before = objs[m],
                                    !.copies = IF n = m THEN 0 ELSE 1]
    /\ UNCHANGED <<layout, vobjs, parsers>>

\* operator=(Expected&& other): the same, value_ moved from other.value_
MoveAssign ==
    /\ \E n \in Names, m \in Names :
          /\ objs[n].constructed
          /\ objs[m].constructed
          /\ IF n = m
             THEN UNCHANGED objs
             ELSE \E v \in ReadValue(objs[m]), left \in TValues :
                     objs' = [objs EXCEPT
                                 ![n] = Constructed(v, objs[m].error_, objs[m].has_value_),
                                 ![m].value_ = left]
          /\ call' = [NoCall EXCEPT !.op = "move_assign", !.a = n, !.b = m,
                                    !.a_before = objs[n], !.b_before = objs[m]]
    /\ UNCHANGED <<layout, vobjs, parsers>>

\* the end of the scope of an object: the implicit destructor
Destroy ==
    /\ \E n \in Names :
          /\ objs[n].constructed
          /\ objs' = [objs EXCEPT ![n] = NoObject]
          /\ call' = [NoCall EXCEPT !.op = "destroy", !.a = n, !.a_before = objs[n]]
    /\ UNCHANGED <<layout, vobjs, parsers>>

\* has_value(), operator bool: return has_value_
Call_has_value ==
    /\ \E n \in Names :
          /\ objs[n].constructed
          /\ call' = [NoCall EXCEPT !.op = "has_value", !.a = n,
                                    !.a_before = objs[n],
                                    !.ret_bool = objs[n].has_value_]
    /\ UNCHANGED <<layout, objs, vobjs, parsers>>

\* faulty variant: value() returns a value-initialised T
Call_value_default ==
    /\ \E n \in Names :
          /\ objs[n].constructed
          /\ call' = [NoCall EXCEPT !.op = "value", !.a = n,
                                    !.a_before = objs[n], !.ret_T = T_default]
    /\ UNCHANGED <<layout, objs, vobjs, parsers>>

\* value(), operator*: return value_; noexcept, has_value_ is not looked at
Call_value ==
    /\ \E n \in Names :
          /\ objs[n].constructed
          /\ \E v \in ReadValue(objs[n]) :
                call' = [NoCall EXCEPT !.op = "value", !.a = n,
                                       !.a_before = objs[n], !.ret_T = v]
    /\ UNCHANGED <<layout, objs, vobjs, parsers>>

\* error(): return error_; noexcept, has_value_ is not looked at
Call_error ==
    /\ \E n \in Names :
          /\ objs[n].constructed
          /\ \E e \in ReadError(objs[n]) :
                call' = [NoCall EXCEPT !.op = "error", !.a = n,
                                       !.a_before = objs[n], !.ret_E = e]
    /\ UNCHANGED <<layout, objs, vobjs, parsers>>

\* value_or(default_value): has_value_ ? value_ : static_cast<T>(default_value)
Call_value_or ==
    /\ \E n \in Names, d \in TValues :
          /\ objs[n].constructed
          /\ \E v \in (IF objs[n].has_value_ THEN ReadValue(objs[n]) ELSE {d}) :
                call' = [NoCall EXCEPT !.op = "value_or", !.a = n,
                                       !.a_before = objs[n], !.arg_T = d,
                                       !.ret_T = v]
    /\ UNCHANGED <<layout, objs, vobjs, parsers>>

\* the functions the tests hand to the monadic operations:
\* [](int i) { return Expected<double, std::string>(i * 2.0); }
Twice(v) == Constructed(2 * v, E_default, TRUE)

\* [](std::string s) { return Expected<int, std::string>(s.length()); }
\* and [](std::string s) { return s.length(); }
Length(e) == Len(e)

\* std::to_string on the values of T: the decimal digits, most significant first
to_string(v) ==
    IF v < 10 THEN <<CH_0 + v>> ELSE <<CH_0 + (v \div 10), CH_0 + (v % 10)>>

\* and_then(func): has_value_ ? func(value_) : ReturnType(error_)
Call_and_then ==
    /\ \E n \in Names :
          /\ objs[n].constructed
          /\ IF objs[n].has_value_
             THEN \E v \in ReadValue(objs[n]) :
                     call' = [NoCall EXCEPT !.op = "and_then", !.a = n,
                                            !.a_before = objs[n], !.fn = "Twice",
                                            !.invoked = TRUE, !.arg_T = v,
                                            !.ret_obj = Twice(v)]
             ELSE \E e \in ReadError(objs[n]) :
                     call' = [NoCall EXCEPT !.op = "and_then", !.a = n,
                                            !.a_before = objs[n], !.fn = "Twice",
                                            !.ret_obj = Constructed(T_default, e, FALSE)]
    /\ UNCHANGED <<layout, objs, vobjs, parsers>>

\* or_else(func): !has_value_ ? func(error_) : *this
Call_or_else ==
    /\ \E n \in Names :
          /\ objs[n].constructed
          /\ IF ~objs[n].has_value_
             THEN \E e \in ReadError(objs[n]) :
                     call' = [NoCall EXCEPT !.op = "or_else", !.a = n,
                                            !.a_before = objs[n], !.fn = "Length",
                                            !.invoked = TRUE, !.arg_E = e,
                                            !.ret_obj = Constructed(Length(e), E_default, TRUE)]
             ELSE \E v \in ReadValue(objs[n]) :
                     call' = [NoCall EXCEPT !.op = "or_else", !.a = n,
                                            !.a_before = objs[n], !.fn = "Length",
                                            !.ret_obj = Constructed(v, objs[n].error_,
                                                                    objs[n].has_value_)]
    /\ UNCHANGED <<layout, objs, vobjs, parsers>>

\* transform(func): has_value_ ? ReturnType(func(value_)) : ReturnType(error_)
Call_transform ==
    /\ \E n \in Names :
          /\ objs[n].constructed
          /\ IF objs[n].has_value_
             THEN \E v \in ReadValue(objs[n]) :
                     call' = [NoCall EXCEPT !.op = "transform", !.a = n,
                                            !.a_before = objs[n], !.fn = "to_string",
                                            !.invoked = TRUE, !.arg_T = v,
                                            !.ret_obj = Constructed(to_string(v), E_default, TRUE)]
             ELSE \E e \in ReadError(objs[n]) :
                     call' = [NoCall EXCEPT !.op = "transform", !.a = n,
                                            !.a_before = objs[n], !.fn = "to_string",
                                            !.ret_obj = Constructed(<<>>, e, FALSE)]
    /\ UNCHANGED <<layout, objs, vobjs, parsers>>

\* transform_error(func): !has_value_ ? ReturnType(make_unexpected(func(error_)))
\*                                    : ReturnType(value_)
Call_transform_error ==
    /\ \E n \in Names :
          /\ objs[n].constructed
          /\ IF ~objs[n].has_value_
             THEN \E e \in ReadError(objs[n]) :
                     call' = [NoCall EXCEPT !.op = "transform_error", !.a = n,
                                            !.a_before = objs[n], !.fn = "Length",
                                            !.invoked = TRUE, !.arg_E = e,
                                            !.ret_obj = Constructed(T_default, Length(e), FALSE)]
             ELSE \E v \in ReadValue(objs[n]) :
                     call' = [NoCall EXCEPT !.op = "transform_error", !.a = n,
                                            !.a_before = objs[n], !.fn = "Length",
                                            !.ret_obj = Constructed(v, Length(E_default), TRUE)]
    /\ UNCHANGED <<layout, objs, vobjs, parsers>>

\* Expected<void, E>: members error_ and has_value_ only
VoidConstructed(e, h) == [constructed |-> TRUE, error_ |-> e, has_value_ |-> h]

\* Expected(): error_(), has_value_(true)
Void_construct ==
    /\ \E n \in VoidNames :
          /\ ~vobjs[n].constructed
          /\ vobjs' = [vobjs EXCEPT ![n] = VoidConstructed(E_default, TRUE)]
          /\ call' = [NoCall EXCEPT !.op = "void_construct", !.a = n]
    /\ UNCHANGED <<layout, objs, parsers>>

\* Expected(E error), Expected(Unexpected<E>): error_(e), has_value_(false)
Void_construct_error ==
    /\ \E n \in VoidNames, e \in EValues :
          /\ ~vobjs[n].constructed
          /\ vobjs' = [vobjs EXCEPT ![n] = VoidConstructed(e, FALSE)]
          /\ call' = [NoCall EXCEPT !.op = "void_construct_error", !.a = n,
                                    !.arg_E = e]
    /\ UNCHANGED <<layout, objs, parsers>>

\* the end of the test's scope
Void_destroy ==
    /\ \E n \in VoidNames :
          /\ vobjs[n].constructed
          /\ vobjs' = [vobjs EXCEPT ![n] = NoVoidObject]
          /\ call' = [NoCall EXCEPT !.op = "void_destroy", !.a = n]
    /\ UNCHANGED <<layout, objs, parsers>>

\* has_value(), operator bool: return has_value_
Void_has_value ==
    /\ \E n \in VoidNames :
          /\ vobjs[n].constructed
          /\ call' = [NoCall EXCEPT !.op = "void_has_value", !.a = n,
                                    !.ret_bool = vobjs[n].has_value_]
    /\ UNCHANGED <<layout, objs, vobjs, parsers>>

\* void value() const noexcept {}: an empty body, whatever has_value_ is
Void_value ==
    /\ \E n \in VoidNames :
          /\ vobjs[n].constructed
          /\ call' = [NoCall EXCEPT !.op = "void_value", !.a = n]
    /\ UNCHANGED <<layout, objs, vobjs, parsers>>

\* error(): return error_
Void_error ==
    /\ \E n \in VoidNames :
          /\ vobjs[n].constructed
          /\ call' = [NoCall EXCEPT !.op = "void_error", !.a = n,
                                    !.ret_E = vobjs[n].error_]
    /\ UNCHANGED <<layout, objs, vobjs, parsers>>

\* []() { return Expected<int, int>(123); }, with the error type of the model
Make123 == Constructed(123, E_default, TRUE)

\* and_then(func) of Expected<void, E>: func() when a value is held, else a
\* result holding the same error
Void_and_then ==
    /\ \E n \in VoidNames :
          /\ vobjs[n].constructed
          /\ IF vobjs[n].has_value_
             THEN call' = [NoCall EXCEPT !.op = "void_and_then", !.a = n,
                                         !.fn = "Make123", !.invoked = TRUE,
                                         !.ret_obj = Make123]
             ELSE call' = [NoCall EXCEPT !.op = "void_and_then", !.a = n,
                                         !.fn = "Make123",
                                         !.ret_obj = Constructed(T_default,
                                                                 vobjs[n].error_, FALSE)]
    /\ UNCHANGED <<layout, objs, vobjs, parsers>>

\* the cases of the switch of parseErrorToString, each with the literal returned
parseErrorToString_cases ==
    [InvalidCharacter    |-> "InvalidCharacter",
     BlankInterDigits    |-> "BlankInterDigits",
     Overflow            |-> "Overflow",
     Empty               |-> "Empty",
     InvalidPrefix       |-> "InvalidPrefix",
     MissingDelimiter    |-> "MissingDelimiter",
     MismatchedDelimiter |-> "MismatchedDelimiter",
     InvalidDigit        |-> "InvalidDigit",
     MissingB            |-> "MissingB",
     InvalidBase         |-> "InvalidBase",
     BaseOutOfRange      |-> "BaseOutOfRange"]

\* parseErrorToString(e): the literal of the case of e, else return "Unknown"
parseErrorToString(e) ==
    IF e \in DOMAIN parseErrorToString_cases
    THEN parseErrorToString_cases[e]
    ELSE "Unknown"

\* main prints parseErrorToString(error) of a ParseError
Call_parseErrorToString ==
    /\ \E e \in ParseError :
          call' = [NoCall EXCEPT !.op = "parseErrorToString", !.arg_E = e,
                                 !.ret_E = parseErrorToString(e)]
    /\ UNCHANGED <<layout, objs, vobjs, parsers>>

\* Expected(in_place, args...): the constructor that test_in_place_construction
\* calls. These sources do not define it; after the specification it builds
\* the value payload, and nothing else, directly from the arguments, without a
\* temporary T and so without a copy of T.
InPlaceConstruct ==
    /\ \E n \in Names, v \in TValues :
          /\ ~objs[n].constructed
          /\ objs' = [objs EXCEPT ![n] =
                         [constructed |-> TRUE, value_ |-> v, error_ |-> E_default,
                          has_value_ |-> TRUE,
                          alive |-> IF layout = "members"
                                    THEN {"value_", "error_"} ELSE {"value_"}]]
          /\ call' = [NoCall EXCEPT !.op = "in_place", !.a = n, !.arg_T = v]
    /\ UNCHANGED <<layout, vobjs, parsers>>

\* the container tests: either definition of the struct, no object yet
InitExpected ==
    /\ layout \in Layouts
    /\ objs = [n \in Names |-> NoObject]
    /\ vobjs = [n \in VoidNames |-> NoVoidObject]
    /\ call = NoCall
    /\ str = NullPtr
    /\ pc = "idle"
    /\ index = 0
    /\ opening_delimiter = CH_NUL
    /\ digit = U64Zero
    /\ found_digit = FALSE
    /\ base = U64Zero
    /\ found_base_digit = FALSE
    /\ ret = Expected_unexpected(ParseError_default)
    /\ previous = <<>>
    /\ result = U64Zero
    /\ start_index = 0
    /\ end_index = 0

NextExpected ==
    \/ ConstructValue
    \/ ConstructError
    \/ CopyConstruct
    \/ MoveConstruct
    \/ CopyAssign
    \/ MoveAssign
    \/ Destroy
    \/ Call_has_value
    \/ Call_value
    \/ Call_error
    \/ Call_value_or
    \/ Call_and_then
    \/ Call_or_else
    \/ Call_transform
    \/ Call_transform_error
    \/ Void_construct
    \/ Void_construct_error
    \/ Void_destroy
    \/ Void_has_value
    \/ Void_value
    \/ Void_error
    \/ Void_and_then
    \/ Call_parseErrorToString
    \/ InPlaceConstruct

SpecExpected == InitExpected /\ [][NextExpected]_vars

(***************************************************************************)
(* The grammar of the specification, read off a whole input:               *)
(*   format := prefix WS* open WS* digits WS* close WS* 'B' WS* base WS*   *)
(* Numerals are compared as decimal digit strings, independently of the    *)
(* limb arithmetic of the parser.                                          *)
(***************************************************************************)
\* s[i] of a NUL-terminated string, i counted from 0
RefAt(s, i) == IF i < Len(s) THEN s[i + 1] ELSE CH_NUL

RefIsDigit(c) == c \in CH_0..CH_9

\* the first position at or after i that holds no blank
RECURSIVE RefSkip(_, _)
RefSkip(s, i) == IF RefAt(s, i) \in BlankChars THEN RefSkip(s, i + 1) ELSE i

\* the first position at or after i that holds no decimal digit
RECURSIVE RefDigitsEnd(_, _)
RefDigitsEnd(s, i) == IF RefIsDigit(RefAt(s, i)) THEN RefDigitsEnd(s, i + 1) ELSE i

\* the characters s[i..j-1], i and j counted from 0
RefSlice(s, i, j) == SubSeq(s, i + 1, j)

\* a numeral: its decimal digits without leading zeros (zero is the empty one)
RECURSIVE DecCanon(_)
DecCanon(ds) ==
    IF ds = <<>> THEN <<>>
    ELSE IF Head(ds) = 0 THEN DecCanon(Tail(ds)) ELSE ds

\* the numeral a run of digit characters denotes
DecOfChars(cs) == DecCanon([k \in 1..Len(cs) |-> cs[k] - CH_0])

DecLt(a, b) ==
    \/ Len(a) < Len(b)
    \/ /\ Len(a) = Len(b)
       /\ \E k \in 1..Len(a) : a[k] < b[k] /\ \A j \in 1..(k - 1) : a[j] = b[j]

DecLeq(a, b) == a = b \/ DecLt(a, b)

\* a - b for numerals a >= b, digit by digit from the right
RECURSIVE DecSubFrom(_, _, _, _, _)
DecSubFrom(a, b, k, borrow, acc) ==
    IF k = 0 THEN DecCanon(acc)
    ELSE LET kb == k - (Len(a) - Len(b))
             bd == IF kb >= 1 THEN b[kb] ELSE 0
             t  == a[k] - bd - borrow
         IN  IF t < 0 THEN DecSubFrom(a, b, k - 1, 1, <<t + 10>> \o acc)
             ELSE DecSubFrom(a, b, k - 1, 0, <<t>> \o acc)

DecSub(a, b) == DecSubFrom(a, b, Len(a), 0, <<>>)

\* r mod b by repeated subtraction, for r < 10 * b
RECURSIVE DecReduce(_, _)
DecReduce(r, b) == IF DecLt(r, b) THEN r ELSE DecReduce(DecSub(r, b), b)

\* a mod b for numerals, b # 0: long division, one digit of a at a time
RECURSIVE DecModFrom(_, _, _, _)
DecModFrom(a, b, k, r) ==
    IF k > Len(a) THEN r
    ELSE DecModFrom(a, b, k + 1, DecReduce(DecCanon(r \o <<a[k]>>), b))

DecMod(a, b) == DecModFrom(a, b, 1, <<>>)

\* the numeral of a uint64_t
RECURSIVE U64ToDec(_)
U64ToDec(x) ==
    IF x = U64Zero THEN <<>>
    ELSE U64ToDec(U64DivSmall(x, 10)) \o <<U64ModSmall(x, 10)>>

Dec2Pow64Minus1 == DecOfChars(NumMaxU64)
Dec2Pow32 == DecOfChars(NumMaxU32Plus1)

\* the closer that matches an opener
RefCloser(o) == IF o = CH_HASH THEN CH_HASH ELSE CH_RBRACKET

\* Where the grammar's elements lie in s.  An element that is wrong is stepped
\* over (one character) when it cannot be the start of what follows, so that
\* the elements after it can be looked at as well.
RefStep(c, ok) ==
    IF ok THEN 1
    ELSE IF c = CH_NUL \/ RefIsDigit(c) \/ c \in BlankChars
            \/ c \in {CH_HASH, CH_LBRACKET, CH_RBRACKET, CH_B}
    THEN 0 ELSE 1

RefSeg(s) ==
    LET isDig    == Len(s) >= 3 /\ SubSeq(s, 1, 3) = <<CH_d, CH_i, CH_g>>
        isD      == Len(s) >= 1 /\ s[1] = CH_d
        prefixOk == isD
        pEnd     == IF isDig THEN 3 ELSE IF isD THEN 1 ELSE RefStep(RefAt(s, 0), FALSE)
        iOpen    == RefSkip(s, pEnd)
        cOpen    == RefAt(s, iOpen)
        openOk   == cOpen \in {CH_HASH, CH_LBRACKET}
        iDigit   == RefSkip(s, iOpen + RefStep(cOpen, openOk \/ cOpen = CH_RBRACKET))
        iDigEnd  == RefDigitsEnd(s, iDigit)
        iClose   == RefSkip(s, iDigEnd)
        cClose   == RefAt(s, iClose)
        closeOk  == IF openOk THEN cClose = RefCloser(cOpen)
                    ELSE cClose \in {CH_HASH, CH_RBRACKET}
        iB       == RefSkip(s, iClose + RefStep(cClose,
                        closeOk \/ cClose \in {CH_HASH, CH_LBRACKET, CH_RBRACKET}))
        cB       == RefAt(s, iB)
        bOk      == cB = CH_B
        iBase    == RefSkip(s, iB + RefStep(cB, bOk))
        iBaseEnd == RefDigitsEnd(s, iBase)
        iTrail   == RefSkip(s, iBaseEnd)
    IN  [prefixOk |-> prefixOk, pEnd |-> pEnd,
         iOpen |-> iOpen, cOpen |-> cOpen, openOk |-> openOk,
         digits |-> RefSlice(s, iDigit, iDigEnd),
         iClose |-> iClose, cClose |-> cClose, closeOk |-> closeOk,
         iB |-> iB, cB |-> cB, bOk |-> bOk,
         basedigits |-> RefSlice(s, iBase, iBaseEnd),
         iTrail |-> iTrail, endOk |-> RefAt(s, iTrail) = CH_NUL]

\* the digit field and the base field as numerals
RefDigit(g) == DecOfChars(g.digits)
RefBase(g) == DecOfChars(g.basedigits)

\* a field passes its check: at least one digit, and the number fits 64 bits
RefFieldOk(cs) == cs # <<>> /\ DecLeq(DecOfChars(cs), Dec2Pow64Minus1)

\* the error a field that fails its check is reported with
RefFieldKind(cs, emptyKind) == IF cs = <<>> THEN emptyKind ELSE "Overflow"

\* check 8 as the specification words it: base == 0, or base - 1 exceeds 32 bits
RefRangeFails(b) == b = <<>> \/ DecLt(Dec2Pow32, b)

\* the numbers of the nine checks that the input violates
RefViolated(in) ==
    IF in.null \/ in.chars = <<>> THEN {1}
    ELSE LET g == RefSeg(in.chars)
         IN  {k \in 2..9 :
                \/ k = 2 /\ ~g.prefixOk
                \/ k = 3 /\ ~g.openOk
                \/ k = 4 /\ ~RefFieldOk(g.digits)
                \/ k = 5 /\ ~g.closeOk
                \/ k = 6 /\ ~g.bOk
                \/ k = 7 /\ ~RefFieldOk(g.basedigits)
                \/ k = 8 /\ RefFieldOk(g.basedigits) /\ RefRangeFails(RefBase(g))
                \/ k = 9 /\ ~g.endOk}

\* the error kind check k reports
RefKind(in, k) ==
    CASE k = 1 -> "Empty"
      [] k = 2 -> "InvalidPrefix"
      [] k = 3 -> "MissingDelimiter"
      [] k = 4 -> RefFieldKind(RefSeg(in.chars).digits, "InvalidDigit")
      [] k = 5 -> "MismatchedDelimiter"
      [] k = 6 -> "MissingB"
      [] k = 7 -> RefFieldKind(RefSeg(in.chars).basedigits, "InvalidBase")
      [] k = 8 -> "BaseOutOfRange"
      [] k = 9 -> "InvalidCharacter"

SetMin(S) == CHOOSE m \in S : \A n \in S : m <= n

\* the call has returned
Returned == pc = "done"

\* the call has returned the error e
ReturnedError(e) == Returned /\ ~ret.has_value_ /\ ret.error_ = e

(***************************************************************************)
(* The claims about parse_digit_format.                                    *)
(***************************************************************************)
\* the input is the string w... (w a sequence of characters)
RefStartsWith(s, w) == Len(s) >= Len(w) /\ SubSeq(s, 1, Len(w)) = w

\* checks 1..k pass on the input
RefPass(in, k) == RefViolated(in) \cap 1..k = {}

\* the whole input matches the grammar, with both numbers in 64 bits and the
\* range check of the base passing
RefMatches(in) ==
    /\ ~in.null
    /\ LET g == RefSeg(in.chars)
       IN  /\ RefStartsWith(in.chars, <<CH_d>>)
           /\ g.openOk
           /\ RefFieldOk(g.digits)
           /\ g.cClose = RefCloser(g.cOpen)
           /\ g.cB = CH_B
           /\ RefFieldOk(g.basedigits)
           /\ ~RefRangeFails(RefBase(g))
           /\ g.endOk

\* C1: an input that violates more than one of the nine checks is reported
\* with the error kind of the lowest-numbered check it violates.
C1_FirstViolatedCheck ==
    Returned =>
        LET v == RefViolated(str)
        IN  Cardinality(v) > 1 => ReturnedError(RefKind(str, SetMin(v)))

\* 'd#5#B0x' and its like: base out of range and trailing content
C1_Witness ==
    Returned /\ RefViolated(str) = {8, 9} /\ ReturnedError("BaseOutOfRange")

C3_BaseAtLeastTwo ==
    Returned /\ ret.has_value_ =>
        /\ DecLeq(<<2>>, U64ToDec(ret.value_.base))
        /\ DecLeq(U64ToDec(ret.value_.base), Dec2Pow32)
        /\ DecLeq(<<2>>, RefBase(RefSeg(str.chars)))
        /\ DecLeq(RefBase(RefSeg(str.chars)), Dec2Pow32)

\* C4: when checks 1-7 pass, BaseOutOfRange is returned exactly if the base
\* is 0 or base - 1 exceeds 2^32 - 1.
C4_RangeCheck ==
    Returned /\ RefPass(str, 7) =>
        (ReturnedError("BaseOutOfRange") <=> RefRangeFails(RefBase(RefSeg(str.chars))))

\* base 4294967296 passes the range check
C4_Witness ==
    /\ Returned
    /\ RefPass(str, 7)
    /\ RefSeg(str.chars).basedigits = NumMaxU32Plus1
    /\ ~ReturnedError("BaseOutOfRange")

\* C5: a success is returned exactly for the inputs that match the whole
\* grammar; every other input returns an error kind and no record.
C5_AllOrNothing ==
    Returned =>
        /\ ret.has_value_ <=> RefMatches(str)
        /\ ~ret.has_value_ => ret.error_ \in ParseError /\ ret.value_ = DigitResult_default

\* a success on an input that ends in a blank
C5_Witness ==
    /\ Returned
    /\ ret.has_value_
    /\ str.chars[Len(str.chars)] \in BlankChars

\* C6: a null pointer and the empty string return Empty.
C6_NullOrEmpty ==
    Returned /\ (str.null \/ str.chars = <<>>) => ReturnedError("Empty")

C6_Witness == ReturnedError("Empty") /\ str.null

\* C7: a non-empty input that starts with neither "d" nor "dig" returns
\* InvalidPrefix; the match is case-sensitive.
C7_InvalidPrefix ==
    /\ Returned
    /\ ~str.null
    /\ str.chars # <<>>
    /\ ~RefStartsWith(str.chars, <<CH_d>>)
    /\ ~RefStartsWith(str.chars, <<CH_d, CH_i, CH_g>>)
    => ReturnedError("InvalidPrefix")

\* an input that starts with 'D'
C7_Witness ==
    /\ ReturnedError("InvalidPrefix")
    /\ RefStartsWith(str.chars, <<CH_d - 32>>)

\* C8: after a valid prefix and any blanks, a character that is neither '#'
\* nor '[' (the end of the input included) returns MissingDelimiter.
C8_MissingDelimiter ==
    Returned /\ RefPass(str, 2) =>
        LET g == RefSeg(str.chars)
        IN  g.cOpen \notin {CH_HASH, CH_LBRACKET} => ReturnedError("MissingDelimiter")

\* blanks after the prefix, then the end of the input
C8_Witness ==
    /\ ReturnedError("MissingDelimiter")
    /\ RefSeg(str.chars).iOpen > RefSeg(str.chars).pEnd
    /\ RefSeg(str.chars).cOpen = CH_NUL

\* C9: after the opener and any blanks, a digit field without digits returns
\* InvalidDigit and one above 2^64 - 1 returns Overflow; a field within 64
\* bits, 18446744073709551615 included, is accepted.
C9_DigitField ==
    Returned /\ RefPass(str, 3) =>
        LET g == RefSeg(str.chars)
        IN  /\ g.digits = <<>> => ReturnedError("InvalidDigit")
            /\ g.digits # <<>> /\ DecLt(Dec2Pow64Minus1, RefDigit(g))
                  => ReturnedError("Overflow")
            /\ RefFieldOk(g.digits) =>
                  /\ ~ReturnedError("InvalidDigit")
                  /\ ReturnedError("Overflow") =>
                        RefPass(str, 6) /\ ~RefFieldOk(g.basedigits)

\* the digit field 18446744073709551615 in a successful parse
C9_Witness ==
    /\ Returned
    /\ ret.has_value_
    /\ RefSeg(str.chars).digits = NumMaxU64

\* C10: after the digit field and any blanks, a character that is not the
\* closer matching the opener returns MismatchedDelimiter.
C10_MismatchedDelimiter ==
    Returned /\ RefPass(str, 4) =>
        LET g == RefSeg(str.chars)
        IN  g.cClose # RefCloser(g.cOpen) => ReturnedError("MismatchedDelimiter")

\* '[' closed by '#'
C10_Witness ==
    /\ ReturnedError("MismatchedDelimiter")
    /\ RefPass(str, 4)
    /\ RefSeg(str.chars).cOpen = CH_LBRACKET
    /\ RefSeg(str.chars).cClose = CH_HASH

\* C11: after the closing delimiter and any blanks, a character that is not
\* the upper-case 'B' ('b' and the end of the input included) returns MissingB.
C11_MissingB ==
    Returned /\ RefPass(str, 5) =>
        LET g == RefSeg(str.chars)
        IN  g.cB # CH_B => ReturnedError("MissingB")

\* a lower-case 'b' where 'B' is due
C11_Witness ==
    /\ ReturnedError("MissingB")
    /\ RefPass(str, 5)
    /\ RefSeg(str.chars).cB = CH_B + 32

\* C12: after 'B' and any blanks, a base field without digits returns
\* InvalidBase and one above 2^64 - 1 returns Overflow, not BaseOutOfRange.
C12_BaseField ==
    Returned /\ RefPass(str, 6) =>
        LET g == RefSeg(str.chars)
        IN  /\ g.basedigits = <<>> => ReturnedError("InvalidBase")
            /\ g.basedigits # <<>> /\ DecLt(Dec2Pow64Minus1, RefBase(g))
                  => ReturnedError("Overflow")

\* a base field of 21 digits, which only the check before the multiplication stops
C12_Witness ==
    /\ ReturnedError("Overflow")
    /\ RefPass(str, 6)
    /\ RefSeg(str.chars).basedigits = NumMaxU64Times10

\* C13: when checks 1-8 pass, a character other than a blank after the base
\* returns InvalidCharacter, and a trailing run of blanks alone is accepted.
C13_TrailingContent ==
    Returned /\ RefPass(str, 8) =>
        LET g == RefSeg(str.chars)
        IN  /\ RefAt(str.chars, g.iTrail) # CH_NUL => ReturnedError("InvalidCharacter")
            /\ RefAt(str.chars, g.iTrail) = CH_NUL => ret.has_value_

\* a blank and then a foreign character after the base
C13_Witness ==
    /\ ReturnedError("InvalidCharacter")
    /\ RefPass(str, 8)
    /\ Len(str.chars) >= 2
    /\ str.chars[Len(str.chars)] = CH_x
    /\ str.chars[Len(str.chars) - 1] = CH_SPACE

RefNumber(s) ==
    LET lead  == RefSkip(s, 0)
        dEnd  == RefDigitsEnd(s, lead)
        after == RefSkip(s, dEnd)
    IN  [digits |-> RefSlice(s, lead, dEnd),
         dEnd   |-> dEnd,
         after  |-> after,
         next   |-> RefAt(s, after)]

\* the digit run denotes a number <= 2^64 - 1
RefInRange(cs) == DecLeq(DecOfChars(cs), Dec2Pow64Minus1)

ReturnedNumber == pc = "p_done"

ReturnedNumberError(e) == ReturnedNumber /\ ~ret.has_value_ /\ ret.error_ = e

C16_EmptyOnNoDigit ==
    ReturnedNumber /\ (str.null \/ RefNumber(str.chars).digits = <<>>) =>
        ReturnedNumberError("Empty")

\* C18: a digit run, one run of blanks, then another digit: BlankInterDigits,
\* never a success.
C18_BlankInterDigits_original ==
    ReturnedNumber /\ ~str.null =>
        LET g == RefNumber(str.chars)
        IN  g.digits # <<>> /\ g.after > g.dEnd /\ RefIsDigit(g.next) =>
                ReturnedNumberError("BlankInterDigits")

\* C18 as amended: the same for a digit run that denotes a number <= 2^64 - 1;
\* a larger one returns Overflow; in neither case a success.
C18_BlankInterDigits ==
    ReturnedNumber /\ ~str.null =>
        LET g == RefNumber(str.chars)
        IN  g.digits # <<>> /\ g.after > g.dEnd /\ RefIsDigit(g.next) =>
                IF RefInRange(g.digits)
                THEN ReturnedNumberError("BlankInterDigits")
                ELSE ReturnedNumberError("Overflow")

\* "12", a line feed, "34"
C18_Witness ==
    /\ ReturnedNumberError("BlankInterDigits")
    /\ str.chars = Dec(<<1,2>>) \o <<CH_LF>> \o Dec(<<3,4>>)

\* C19: a non-empty digit run followed, after at most one run of blanks, by a
\* character that is no digit, no blank and not the end: InvalidCharacter,
\* never the value of the leading digits.
C19_InvalidCharacter_original ==
    ReturnedNumber /\ ~str.null =>
        LET g == RefNumber(str.chars)
        IN  g.digits # <<>> /\ ~RefIsDigit(g.next) /\ g.next # CH_NUL =>
                ReturnedNumberError("InvalidCharacter")

\* C19 as amended: the same for a digit run that denotes a number
\* <= 2^64 - 1; a larger one returns Overflow; in neither case a success.
C19_InvalidCharacter ==
    ReturnedNumber /\ ~str.null =>
        LET g == RefNumber(str.chars)
        IN  g.digits # <<>> /\ ~RefIsDigit(g.next) /\ g.next # CH_NUL =>
                IF RefInRange(g.digits)
                THEN ReturnedNumberError("InvalidCharacter")
                ELSE ReturnedNumberError("Overflow")

\* "12a34"
C19_Witness ==
    /\ ReturnedNumberError("InvalidCharacter")
    /\ str.chars = Dec(<<1,2>>) \o <<CH_a>> \o Dec(<<3,4>>)

\* where the run of digits that ends before position i begins
RECURSIVE RefRunStart(_, _)
RefRunStart(s, i) ==
    IF i > 0 /\ RefIsDigit(RefAt(s, i - 1)) THEN RefRunStart(s, i - 1) ELSE i

\* the accumulator x holds the exact value of the digits consumed before index
RefExact(x) ==
    LET consumed == RefSlice(str.chars, RefRunStart(str.chars, index), index)
    IN  /\ U64ToDec(x) = DecOfChars(consumed)
        /\ DecLeq(DecOfChars(consumed), Dec2Pow64Minus1)

\* C17: in the three accumulation loops (parse_number, the digit field and the
\* base field of parse_digit_format) the accumulator always equals the exact
\* decimal value of the digits consumed so far and is <= 2^64 - 1; a digit run
\* denoting 2^64 - 1 is taken with that value; one denoting 2^64 or more
\* returns Overflow.
C17_NoWraparound ==
    /\ pc = "n_loop" => RefExact(result)
    /\ pc = "digit_loop" => RefExact(digit)
    /\ pc = "base_loop" => RefExact(base)
    /\ pc = "p_after" /\ ret.has_value_ =>
          U64ToDec(ret.value_) = DecOfChars(RefNumber(str.chars).digits)
    /\ pc = "close" => U64ToDec(digit) = RefDigit(RefSeg(str.chars))
    /\ pc = "range" => U64ToDec(base) = RefBase(RefSeg(str.chars))
    /\ ReturnedNumber /\ ~str.null =>
          LET g == RefNumber(str.chars)
          IN  /\ g.digits # <<>> /\ ~RefInRange(g.digits)
                    => ReturnedNumberError("Overflow")
              /\ DecOfChars(g.digits) = Dec2Pow64Minus1
                    => ~ReturnedNumberError("Overflow")
    /\ Returned /\ RefPass(str, 3) =>
          LET g == RefSeg(str.chars)
          IN  /\ g.digits # <<>> /\ ~RefInRange(g.digits)
                    => ReturnedError("Overflow")
              /\ RefDigit(g) = Dec2Pow64Minus1 /\ RefInRange(g.basedigits)
                    => ~ReturnedError("Overflow")
              /\ RefPass(str, 6) /\ g.basedigits # <<>> /\ ~RefInRange(g.basedigits)
                    => ReturnedError("Overflow")

\* the number loop has consumed all twenty digits of 2^64 - 1
C17_Witness ==
    /\ pc = "n_loop"
    /\ result = max_uint64
    /\ index - RefRunStart(str.chars, index) = Len(NumMaxU64)

(* ---------------------- the payloads of an Expected ------------------- *)
\* the payload the has_value tag designates
RefDesignated(o) == IF o.has_value_ THEN "value_" ELSE "error_"

\* C20: after any sequence of constructions, copies, moves and assignments,
\* exactly one of the two payloads of an Expected is alive, and it is the one
\* its has_value tag designates.
C20_OnePayloadAlive ==
    \A n \in Names :
        objs[n].constructed => objs[n].alive = {RefDesignated(objs[n])}

\* C21: an Expected constructed from a value v has has_value() true and
\* value() = v; one constructed from Unexpected(e) has has_value() false and
\* error() = e.
C21_ConstructThenAccess ==
    /\ call.op = "construct_value" =>
          objs[call.a].has_value_ /\ objs[call.a].value_ = call.arg_T
    /\ call.op = "construct_error" =>
          ~objs[call.a].has_value_ /\ objs[call.a].error_ = call.arg_E
    /\ call.op = "has_value" => call.ret_bool = call.a_before.has_value_
    /\ call.op = "value" /\ call.a_before.has_value_ =>
          ~call.thrown /\ call.ret_T = call.a_before.value_
    /\ call.op = "error" /\ ~call.a_before.has_value_ =>
          ~call.thrown /\ call.ret_E = call.a_before.error_

\* C22: value() on an Expected that holds an error, and error() on one that
\* holds a value, fail with BadAccess and return no payload; the object is
\* unchanged.
C22_BadAccess ==
    /\ call.op = "value" /\ ~call.a_before.has_value_ =>
          call.thrown /\ objs[call.a] = call.a_before
    /\ call.op = "error" /\ call.a_before.has_value_ =>
          call.thrown /\ objs[call.a] = call.a_before

\* C23: after the copy or move assignment a = b, in all four combinations of
\* variants, a.has_value() is b's prior tag and a's active payload is b's prior
\* active payload; a copy assignment leaves b unchanged; a self-assignment
\* leaves the object unchanged.
C23_Assignment ==
    call.op \in {"copy_assign", "move_assign"} =>
       /\ objs[call.a].has_value_ = call.b_before.has_value_
       /\ IF call.b_before.has_value_
          THEN objs[call.a].value_ = call.b_before.value_
          ELSE objs[call.a].error_ = call.b_before.error_
       /\ call.op = "copy_assign" => objs[call.b] = call.b_before
       /\ call.a = call.b => objs[call.a] = call.a_before

\* C24: a copy construction duplicates the tag and the active payload and
\* leaves the source unchanged; a move construction yields the source's tag
\* and its former active payload.
C24_CopyMoveConstruct ==
    call.op \in {"copy_construct", "move_construct"} =>
       /\ objs[call.a].constructed
       /\ objs[call.a].has_value_ = call.b_before.has_value_
       /\ IF call.b_before.has_value_
          THEN objs[call.a].value_ = call.b_before.value_
          ELSE objs[call.a].error_ = call.b_before.error_
       /\ call.op = "copy_construct" => objs[call.b] = call.b_before

\* C25: and_then(f) on an Expected that holds a value returns f(value); on one
\* that holds an error it returns a result holding the same error and f is not
\* invoked.
C25_AndThen ==
    call.op = "and_then" =>
       IF call.a_before.has_value_
       THEN call.invoked /\ call.ret_obj = Twice(call.a_before.value_)
       ELSE /\ ~call.invoked
            /\ ~call.ret_obj.has_value_
            /\ call.ret_obj.error_ = call.a_before.error_

\* C26: or_else(f) on an Expected that holds an error returns f(error); on one
\* that holds a value it returns a result holding the same value and f is not
\* invoked.
C26_OrElse ==
    call.op = "or_else" =>
       IF ~call.a_before.has_value_
       THEN /\ call.invoked
            /\ call.ret_obj = Constructed(Length(call.a_before.error_), E_default, TRUE)
       ELSE /\ ~call.invoked
            /\ call.ret_obj.has_value_
            /\ call.ret_obj.value_ = call.a_before.value_

\* C27: transform(f) on an Expected that holds a value returns a value-holding
\* result with f(value); on one that holds an error, an error-holding result
\* with the same error, and f is not invoked.
C27_Transform ==
    call.op = "transform" =>
       IF call.a_before.has_value_
       THEN /\ call.invoked
            /\ call.ret_obj.has_value_
            /\ call.ret_obj.value_ = to_string(call.a_before.value_)
       ELSE /\ ~call.invoked
            /\ ~call.ret_obj.has_value_
            /\ call.ret_obj.error_ = call.a_before.error_

\* C28: transform_error(f) on an Expected that holds an error returns an
\* error-holding result with f(error); on one that holds a value, a
\* value-holding result with the same value, and f is not invoked.
C28_TransformError ==
    call.op = "transform_error" =>
       IF ~call.a_before.has_value_
       THEN /\ call.invoked
            /\ ~call.ret_obj.has_value_
            /\ call.ret_obj.error_ = Length(call.a_before.error_)
       ELSE /\ ~call.invoked
            /\ call.ret_obj.has_value_
            /\ call.ret_obj.value_ = call.a_before.value_

\* C29: value_or(default) returns the stored value of an Expected that holds a
\* value and the default of one that holds an error; it never fails.
C29_ValueOr ==
    call.op = "value_or" =>
       /\ ~call.thrown
       /\ call.ret_T = IF call.a_before.has_value_
                       THEN call.a_before.value_
                       ELSE call.arg_T

\* C30: a default-constructed Expected<void, E> has has_value() true and its
\* value() succeeds and does nothing; value() on one that holds an error fails
\* with BadAccess; and_then(f) calls the zero-argument f on success, and on
\* error returns the same error without calling f.
C30_VoidSpecialization ==
    /\ call.op = "void_construct" => vobjs[call.a].has_value_
    /\ call.op = "void_value" => (call.thrown <=> ~vobjs[call.a].has_value_)
    /\ call.op = "void_and_then" =>
          IF vobjs[call.a].has_value_
          THEN call.invoked /\ call.ret_obj = Make123
          ELSE /\ ~call.invoked
               /\ ~call.ret_obj.has_value_
               /\ call.ret_obj.error_ = vobjs[call.a].error_

\* C31: no call of parse or parse_digit_format signals a failure by an
\* exception: from every input the call goes on, step after step, to a normal
\* return that carries either a value or a ParseError in the error payload;
\* at the last step the character read lies inside the string and the divisor
\* of the returned record is not zero.
C31_NoException ==
    /\ pc \in {"done", "p_done"} =>
          ret.has_value_ \/ ret.error_ \in ParseError
    /\ pc \notin {"done", "p_done", "trailing"} => ENABLED NextAccumulate
    /\ pc = "trailing" => base # U64Zero /\ CharAt(index) >= CH_NUL

\* a malformed literal is answered in band, by a returned ParseError
C31_Witness ==
    /\ pc = "done"
    /\ ~ret.has_value_
    /\ ret.error_ = "MismatchedDelimiter"
    /\ str.chars = <<CH_d, CH_LBRACKET, CH_0 + 5, CH_HASH, CH_B, CH_0 + 3>>

\* C32: parseErrorToString is total: for every member of the enumeration
\* ParseError it returns that member's own name, and distinct members get
\* distinct labels.
C32_ErrorLabel ==
    call.op = "parseErrorToString" =>
       /\ call.ret_E = call.arg_E
       /\ \A e \in ParseError \ {call.arg_E} : parseErrorToString(e) # call.ret_E

\* C33: no path of parse or parse_digit_format returns one of the reserved
\* kinds EmptyDigit, EmptyBase, BlankInterDigitsOfBase, UnknownError, on any
\* input.
C33_ReservedKinds ==
    pc \in {"done", "p_done"} /\ ~ret.has_value_ =>
       ret.error_ \notin {"EmptyDigit", "EmptyBase", "BlankInterDigitsOfBase",
                          "UnknownError"}

\* empty digit and base fields are returned as InvalidDigit and InvalidBase
C33_Witness ==
    /\ pc = "done"
    /\ ~ret.has_value_
    /\ \/ /\ str.chars = <<CH_d, CH_HASH, CH_HASH, CH_B, CH_0 + 3>>
          /\ ret.error_ = "InvalidDigit"
       \/ /\ str.chars = <<CH_d, CH_HASH, CH_0 + 5, CH_HASH, CH_B>>
          /\ ret.error_ = "InvalidBase"

PositionsInOrder ==
    <<"entry", "prefix", "open", "digit_first", "digit_loop", "close", "B",
      "base_first", "base_loop", "range", "trailing", "done">>

PositionOf(p) == CHOOSE k \in 1..Len(PositionsInOrder) : PositionsInOrder[k] = p

\* what is left to do: the characters not yet passed, then the steps not yet taken
StepsLeft ==
    Len(PositionsInOrder) * (Len(str.chars) - index)
      + (Len(PositionsInOrder) - PositionOf(pc))

\* C35: parse_digit_format terminates on every finite NUL-terminated input:
\* the scan index never decreases, every iteration of a loop advances it by
\* one, every step uses up some of a budget that the length of the input
\* bounds, and the call returns.
C35_Terminates ==
    /\ [][index' >= index]_vars
    /\ [][pc' = pc => index' = index + 1]_vars
    /\ [][StepsLeft' < StepsLeft]_vars
    /\ [](StepsLeft >= 0)
    /\ <>(pc = "done")

\* a literal with blanks at every blank point has been scanned to its end
C35_Witness ==
    /\ pc = "done"
    /\ ret.has_value_
    /\ index = Len(str.chars)
    /\ Len(str.chars) >= 12
    /\ \E k \in 1..Len(str.chars) : IsBlank(str.chars[k])

\* C36: parse_digit_format never reads past the terminating NUL: in every
\* reachable state 0 <= index <= length(input), every position read lies in
\* 0..length(input), and the look-ahead for the 'g' of "dig" is read only when
\* the character before it is 'i'.
C36_NoReadPastNul ==
    /\ 0 <= index
    /\ index <= Len(str.chars)
    /\ \A i \in ReadsNow : 0 <= i /\ i <= Len(str.chars)
    /\ pc = "prefix" /\ (index + 2) \in ReadsNow => CharAt(index + 1) = CH_i

\* on "di" the look-ahead reads the terminating NUL itself, and nothing beyond
C36_Witness ==
    /\ pc = "prefix"
    /\ str.chars = <<CH_d, CH_i>>
    /\ ReadsNow = {0, 1, 2}

\* C37: parse_digit_format returns InvalidPrefix if and only if the input is
\* non-empty and its first character is not 'd'. An input whose first
\* character is 'd' and whose continuation is neither "ig" nor blanks and an
\* opening delimiter ("di#5#B3", "dx#5#B3", "d" alone) returns
\* MissingDelimiter, and MissingDelimiter is returned in no other case than an
\* accepted prefix that blanks and '#' or '[' do not follow. An input that
\* begins with a blank, or is made of blanks only, returns InvalidPrefix and
\* not Empty.
C37_PrefixOutcomes ==
    Returned =>
        LET s == str.chars
            afterD == RefAt(s, RefSkip(s, 1))
            afterDig == RefAt(s, RefSkip(s, 3))
        IN  /\ ReturnedError("InvalidPrefix") <=>
                   (~str.null /\ s # <<>> /\ s[1] # CH_d)
            /\ (RefStartsWith(s, <<CH_d>>)
                  /\ ~RefStartsWith(s, <<CH_d, CH_i, CH_g>>)
                  /\ afterD \notin {CH_HASH, CH_LBRACKET})
               => ReturnedError("MissingDelimiter")
            /\ ReturnedError("MissingDelimiter") =>
                   /\ RefStartsWith(s, <<CH_d>>)
                   /\ IF RefStartsWith(s, <<CH_d, CH_i, CH_g>>)
                      THEN afterDig \notin {CH_HASH, CH_LBRACKET}
                      ELSE afterD \notin {CH_HASH, CH_LBRACKET}
            /\ (s # <<>> /\ s[1] \in BlankChars) =>
                   ReturnedError("InvalidPrefix") /\ ~ReturnedError("Empty")

\* "di#5#B3": the 'i' that no 'g' follows is left where the delimiter should be
C37_Witness ==
    /\ ReturnedError("MissingDelimiter")
    /\ str.chars = <<CH_d, CH_i, CH_HASH, CH_0 + 5, CH_HASH, CH_B, CH_0 + 3>>
    /\ index = 1

\* C38: parse_digit_format never returns BlankInterDigits. With the checks
\* before it passing, a blank inside the digit field (digits, blanks, then a
\* digit where the closing delimiter should be, as in "d#1 2#B3") returns
\* MismatchedDelimiter, and a blank inside the base field (digits, blanks, then
\* a digit, as in "d#5#B1 0") returns BaseOutOfRange if the digits before the
\* blank fail the range check and InvalidCharacter if they pass it.
C38_BlankInsideField ==
    Returned =>
        /\ ~ReturnedError("BlankInterDigits")
        /\ RefPass(str, 4) /\ RefIsDigit(RefSeg(str.chars).cClose)
           => ReturnedError("MismatchedDelimiter")
        /\ RefPass(str, 7)
             /\ RefIsDigit(RefAt(str.chars, RefSeg(str.chars).iTrail))
           => IF RefRangeFails(RefBase(RefSeg(str.chars)))
              THEN ReturnedError("BaseOutOfRange")
              ELSE ReturnedError("InvalidCharacter")

\* "d#5#B1 0": base 1 passes the range check, the '0' after the blank is
\* trailing content
C38_Witness ==
    /\ ReturnedError("InvalidCharacter")
    /\ str.chars = <<CH_d, CH_HASH, CH_0 + 5, CH_HASH, CH_B, CH_0 + 1,
                     CH_SPACE, CH_0>>
    /\ index = 7

====
